---- MODULE Spec2Model ----
(***************************************************************************)
(* Model of archlinux_management.configuration.Configuration: the line-    *)
(* oriented parser (__init__), the index (_fields), get / comment / set    *)
(* and the serializer (__str__); and of file_updater.FileUpdater: the      *)
(* staged update of a target file (apply / remove inside a `with` block),  *)
(* with the prompts, the review tools and the command executor it calls.   *)
(*                                                                         *)
(* A Python str is modelled as a sequence of one-character strings, so     *)
(* that the regular expressions of the source act on characters.  Field    *)
(* objects live in `heap`; a section's line list and the index both hold   *)
(* references (positions in heap), as the Python lists hold references to  *)
(* the same _ConfigurationField objects.                                   *)
(***************************************************************************)
EXTENDS Integers, Sequences, FiniteSets, TLC

VARIABLES
    lines,      \* the `lines` argument of Configuration.__init__
    sections,   \* self._sections : sequence of [name, lines]
    fields,     \* self._fields   : key -> sequence of references into heap
    heap,       \* the _ConfigurationField objects, by reference
    pc,         \* "new" (not yet constructed), "ready", "done" (serialized)
    op,         \* the last call made on the object, with its result
    pre,        \* the object's state just before the last call
    nops,       \* number of calls made so far
    out,        \* the list of lines last produced by __str__
    opts,       \* the keyword options Configuration was constructed with
    method,     \* FileUpdater method called in the with block: apply / remove
    options,    \* FileUpdater.options : [review, confirm, sudo_prompt]
    delete,     \* FileUpdater.delete
    target,     \* content of the file at FileUpdater.target, or Absent
    target0,    \* the target when the with block was entered
    staging,    \* content of the file at FileUpdater.staging, or Absent
    upc,        \* position of the update: where apply / remove is waiting
    exec,       \* the execute_command call in flight, with what it returned
    result,     \* what apply / remove returned: "none", "True", "False"
    exception,  \* the exception that left the with block, "" when none
    events,     \* prompts, tool launches, executor calls and command runs
    environ,    \* what tool resolution sees: diffprog, DIFFPROG, programs
    main,       \* the locals of application.main and its position
    hist        \* what was selected in this iteration, and what ran last

cfgVars == <<lines, sections, fields, heap, pc, op, pre, nops, out, opts>>
updVars == <<method, options, delete, target, target0, staging, upc, exec,
             result, exception, events, environ>>
appVars == <<main, hist>>
vars == <<lines, sections, fields, heap, pc, op, pre, nops, out, opts,
          method, options, delete, target, target0, staging, upc, exec,
          result, exception, events, environ, main, hist>>

(***************************************************************************)
(* Bounds of the model.                                                    *)
(***************************************************************************)
MaxInputLines == 3      \* longest input of the parse / serialize runs
MaxCfgLines == 3        \* longest input of the get / set / comment runs
MaxOps == 2             \* calls made on one Configuration object
MaxIterations == 3      \* times the category menu is answered
MaxCycleOps == 5        \* calls of one set / comment / set ... sequence

(***************************************************************************)
(* Strings.                                                                *)
(***************************************************************************)
\* The characters \s matches, among those the inputs are written with.
Whitespace == {" ", "\t"}

\* Python's None, where a str is optional.
None == <<"None">>

\* Length of the longest prefix of s made of whitespace: what a greedy \s*
\* consumes at the start of s.
LeadingSpace(s) ==
    LET ns == {n \in 0..Len(s) : \A i \in 1..n : s[i] \in Whitespace}
    IN  CHOOSE n \in ns : \A m \in ns : m <= n

\* Position of the first c in s; 0 when c does not occur (str.find + 1).
Find(s, c) ==
    LET ps == {i \in 1..Len(s) : s[i] = c}
    IN  IF ps = {} THEN 0 ELSE CHOOSE i \in ps : \A j \in ps : i <= j

\* s[a:] of Python, with a counted from 1.
From(s, a) == SubSeq(s, a, Len(s))

\* (mutant) `if lines:` without the test of the last line written
strip_always(s) == TRUE

\* bool(s.strip()): s has a character that is not whitespace.
strip(s) == \E i \in 1..Len(s) : s[i] \notin Whitespace

(***************************************************************************)
(* Constructor options, at the defaults from_content uses.                 *)
(***************************************************************************)
comment_char == "#"
section_divider == "."
default_indent == 0

\* The options as the constructor's defaults give them.
DefaultOptions ==
    [comment_char |-> <<comment_char>>, section_divider |-> <<section_divider>>]

\* " " * n
Spaces(n) == [i \in 1..n |-> " "]

\* SECTION_REGEX = ^\s*\[\s*(?P<name>[^]]+)\s*\]\s*$
\* The first \s* ends at the first non-space character, which must be '['.
\* [^]]+ is greedy and cannot cross a ']', so the name runs up to the first
\* ']' of the line, trailing whitespace included; the \s* after it is then
\* empty.  The \s* after '[' is greedy but gives one character back when
\* nothing else is left for the name.  Only whitespace may follow the ']'.
SECTION_REGEX(line) ==
    LET a     == LeadingSpace(line)
        rest  == From(line, a + 2)                \* after the '['
        close == Find(rest, "]")
        body  == SubSeq(rest, 1, close - 1)       \* between '[' and ']'
        tail  == From(rest, close + 1)
        b     == LeadingSpace(body)
        skip  == IF b = Len(body) THEN b - 1 ELSE b
        ok    == /\ a < Len(line)
                 /\ line[a + 1] = "["
                 /\ close >= 2
                 /\ LeadingSpace(tail) = Len(tail)
    IN  IF ok THEN [matched |-> TRUE, name |-> From(body, skip + 1)]
              ELSE [matched |-> FALSE, name |-> <<>>]

\* KEY_VALUE_PATTERN =
\*   ^(?P<indent>\s*)(?P<key>[^=]+)(?P<assignment>\s*=\s*)(?P<value>.*)(?P<ws_post>\s*)$
\* [^=]+ is greedy: the key is everything between the indent and the first
\* '=', the whitespace before the '=' included, so the \s* that opens the
\* assignment is empty.  The indent gives one character back when the text
\* before the '=' is all whitespace.  .* is greedy and takes the rest of the
\* line, so ws_post is always empty.
KEY_VALUE_PATTERN(line) ==
    LET eq     == Find(line, "=")
        before == SubSeq(line, 1, eq - 1)
        after  == From(line, eq + 1)
        a      == LeadingSpace(before)
        indent == IF a = Len(before) THEN a - 1 ELSE a
        b      == LeadingSpace(after)
    IN  IF eq >= 2
        THEN [matched    |-> TRUE,
              indent     |-> SubSeq(before, 1, indent),
              key        |-> From(before, indent + 1),
              assignment |-> <<"=">> \o SubSeq(after, 1, b),
              value      |-> From(after, b + 1),
              ws_post    |-> <<>>]
        ELSE [matched    |-> FALSE, indent |-> <<>>, key |-> <<>>,
              assignment |-> <<>>, value |-> <<>>, ws_post |-> <<>>]

\* comment_regex = ^{comment_char}\s* matched against the key group:
\* comment_match.end(), or 0 when there is no match.
comment_regex(key) ==
    IF Len(key) >= 1 /\ key[1] = comment_char
    THEN 1 + LeadingSpace(Tail(key))
    ELSE 0

(***************************************************************************)
(* The object's state as one value: what the methods read and return.      *)
(***************************************************************************)
Self == [sections |-> sections, fields |-> fields, heap |-> heap]

\* A line of a _Section: a raw str, or a reference to a _ConfigurationField.
RawLine(text) == [field |-> FALSE, text |-> text, ref |-> 0]
FieldLine(ref) == [field |-> TRUE, text |-> <<>>, ref |-> ref]

\* _Section(name, [])
Section(name, ls) == [name |-> name, lines |-> ls]

\* {} : the index before any field is registered.
EmptyIndex == [k \in {} |-> <<>>]

\* self._fields.get(key, [])
IndexGet(fs, key) == IF key \in DOMAIN fs THEN fs[key] ELSE <<>>

\* (mutant) the field is not registered in the index
IndexAppend_unregistered(fs, key, ref) == fs

\* self._fields.setdefault(key, []).append(field)
IndexAppend(fs, key, ref) ==
    [k \in DOMAIN fs \cup {key} |->
        IF k = key THEN Append(IndexGet(fs, key), ref) ELSE fs[k]]

\* section.lines.append(entry), for the section at position i
AppendLine(secs, i, entry) ==
    [secs EXCEPT ![i] = Section(@.name, Append(@.lines, entry))]

(***************************************************************************)
(* Configuration.__init__: one iteration of `for line in lines`.  The      *)
(* loop variable `section` is always the section appended last.            *)
(***************************************************************************)
init_line(st, line) ==
    LET sm      == SECTION_REGEX(line)
        kv      == KEY_VALUE_PATTERN(line)
        end     == comment_regex(kv.key)
        comment == SubSeq(kv.key, 1, end)
        key     == From(kv.key, end + 1)
        cur     == Len(st.sections)
        name    == st.sections[cur].name
        fq      == IF name # <<>> THEN name \o <<section_divider>> \o key
                                  ELSE key
        ref     == Len(st.heap) + 1
        field   == [indent     |-> kv.indent,
                    comment    |-> comment,
                    key        |-> key,
                    assignment |-> kv.assignment,
                    value      |-> kv.value,
                    ws_post    |-> kv.ws_post]
    IN  IF sm.matched
        THEN [st EXCEPT !.sections = Append(@, Section(sm.name, <<>>))]
        ELSE IF kv.matched /\ key # <<>>
        THEN [sections |-> AppendLine(st.sections, cur, FieldLine(ref)),
              fields   |-> IndexAppend(st.fields, fq, ref),
              heap     |-> Append(st.heap, field)]
        ELSE [st EXCEPT !.sections = AppendLine(@, cur, RawLine(line))]

RECURSIVE init_loop(_, _)
init_loop(st, ls) ==
    IF ls = <<>> THEN st ELSE init_loop(init_line(st, Head(ls)), Tail(ls))

\* Configuration(lines)
Configuration(ls) ==
    init_loop([sections |-> <<Section(<<>>, <<>>)>>,
               fields   |-> EmptyIndex,
               heap     |-> <<>>], ls)

(***************************************************************************)
(* Configuration.__init__ with comment_char and section_divider given by   *)
(* the caller (strings of any length, the empty one included).  Nothing in *)
(* lines 51-59 tests them.                                                 *)
(***************************************************************************)
\* s.startswith(p)
StartsWith(s, p) == Len(s) >= Len(p) /\ SubSeq(s, 1, Len(p)) = p

\* comment_regex = ^{re.escape(comment_char)}\s* for any comment_char:
\* comment_match.end(), or -1 when there is no match.  With an empty
\* comment_char the expression is ^\s* and matches every key.
comment_regex_with(cc, key) ==
    IF StartsWith(key, cc)
    THEN Len(cc) + LeadingSpace(From(key, Len(cc) + 1))
    ELSE -1

init_line_with(o, st, line) ==
    LET sm      == SECTION_REGEX(line)
        kv      == KEY_VALUE_PATTERN(line)
        end     == comment_regex_with(o.comment_char, kv.key)
        comment == IF end >= 0 THEN SubSeq(kv.key, 1, end) ELSE <<>>
        key     == IF end >= 0 THEN From(kv.key, end + 1) ELSE kv.key
        cur     == Len(st.sections)
        name    == st.sections[cur].name
        fq      == IF name # <<>> THEN name \o o.section_divider \o key
                                  ELSE key
        ref     == Len(st.heap) + 1
        field   == [indent     |-> kv.indent,
                    comment    |-> comment,
                    key        |-> key,
                    assignment |-> kv.assignment,
                    value      |-> kv.value,
                    ws_post    |-> kv.ws_post]
    IN  IF sm.matched
        THEN [st EXCEPT !.sections = Append(@, Section(sm.name, <<>>))]
        ELSE IF kv.matched /\ key # <<>>
        THEN [sections |-> AppendLine(st.sections, cur, FieldLine(ref)),
              fields   |-> IndexAppend(st.fields, fq, ref),
              heap     |-> Append(st.heap, field)]
        ELSE [st EXCEPT !.sections = AppendLine(@, cur, RawLine(line))]

RECURSIVE init_loop_with(_, _, _)
init_loop_with(o, st, ls) ==
    IF ls = <<>> THEN st
    ELSE init_loop_with(o, init_line_with(o, st, Head(ls)), Tail(ls))

\* Configuration(lines, comment_char=..., section_divider=...): the object,
\* and the exception the constructor raised ("" when it returned).
Configuration_with(ls, o) ==
    [self   |-> init_loop_with(o, [sections |-> <<Section(<<>>, <<>>)>>,
                                   fields   |-> EmptyIndex,
                                   heap     |-> <<>>], ls),
     raised |-> ""]

(***************************************************************************)
(* _ConfigurationField.__str__ and Configuration.__str__ (the list of      *)
(* lines that os.linesep joins).                                           *)
(***************************************************************************)
field_str(f) ==
    f.indent \o f.comment \o f.key \o f.assignment \o f.value \o f.ws_post

\* str(line) for a line of a section
line_str(cfg, entry) ==
    IF entry.field THEN field_str(cfg.heap[entry.ref]) ELSE entry.text

\* (mutant) no separator line is written before a section
RECURSIVE str_loop_unseparated(_, _, _)
str_loop_unseparated(cfg, i, acc) ==
    IF i > Len(cfg.sections) THEN acc
    ELSE LET section == cfg.sections[i]
             a2 == IF section.name # <<>>
                   THEN Append(acc, <<"[">> \o section.name \o <<"]">>)
                   ELSE acc
             a3 == a2 \o [j \in 1..Len(section.lines) |->
                              line_str(cfg, section.lines[j])]
         IN  str_loop_unseparated(cfg, i + 1, a3)

RECURSIVE str_loop(_, _, _)
str_loop(cfg, i, acc) ==
    IF i > Len(cfg.sections) THEN acc
    ELSE LET section == cfg.sections[i]
             a1 == IF acc # <<>> /\ strip(acc[Len(acc)])
                   THEN Append(acc, <<>>) ELSE acc
             a2 == IF section.name # <<>>
                   THEN Append(a1, <<"[">> \o section.name \o <<"]">>)
                   ELSE a1
             a3 == a2 \o [j \in 1..Len(section.lines) |->
                              line_str(cfg, section.lines[j])]
         IN  str_loop(cfg, i + 1, a3)

str(cfg) == str_loop(cfg, 1, <<>>)

(***************************************************************************)
(* get, comment, set.                                                      *)
(***************************************************************************)
\* _get_set_fields: the references of the key's fields that are not commented
get_set_fields(cfg, key) ==
    SelectSeq(IndexGet(cfg.fields, key),
              LAMBDA r : cfg.heap[r].comment = <<>>)

\* (mutant) fields[0] instead of fields[-1]
get_first(cfg, key) ==
    LET fs == get_set_fields(cfg, key)
    IN  IF fs = <<>> THEN <<>> ELSE cfg.heap[fs[1]].value

get(cfg, key) ==
    LET fs == get_set_fields(cfg, key)
    IN  IF fs = <<>> THEN <<>> ELSE cfg.heap[fs[Len(fs)]].value

\* (mutant) fields[0] instead of fields[-1]
comment_first(cfg, key, value) ==
    LET fs == get_set_fields(cfg, key)
        r  == fs[1]
    IN  IF fs = <<>> THEN cfg
        ELSE [cfg EXCEPT !.heap[r] =
                 [@ EXCEPT !.comment = <<comment_char>>,
                           !.value = IF value # None THEN value ELSE @]]

\* (mutant) every uncommented field of the key is commented out
comment_every(cfg, key, value) ==
    LET fs == get_set_fields(cfg, key)
    IN  [cfg EXCEPT !.heap =
            [r \in DOMAIN cfg.heap |->
                IF \E i \in 1..Len(fs) : fs[i] = r
                THEN [cfg.heap[r] EXCEPT
                         !.comment = <<comment_char>>,
                         !.value = IF value # None THEN value ELSE @]
                ELSE cfg.heap[r]]]

\* comment(key, value): value is None when the argument is left out
comment(cfg, key, value) ==
    LET fs == get_set_fields(cfg, key)
        r  == fs[Len(fs)]
    IN  IF fs = <<>> THEN cfg
        ELSE [cfg EXCEPT !.heap[r] =
                 [@ EXCEPT !.comment = <<comment_char>>,
                           !.value = IF value # None THEN value ELSE @]]

\* (mutant) len(fields) >= 1 instead of len(fields) > 1
set_fields_ge1(cfg, key) ==
    LET active == get_set_fields(cfg, key)
        every  == IndexGet(cfg.fields, key)
    IN  IF active # <<>> THEN active
        ELSE IF Len(every) >= 1 THEN <<>> ELSE every

\* set, lines 110-114: the fields set() writes to: the uncommented ones, or
\* the key's only field when it has exactly one and that one is commented.
set_fields(cfg, key) ==
    LET active == get_set_fields(cfg, key)
        every  == IndexGet(cfg.fields, key)
    IN  IF active # <<>> THEN active
        ELSE IF Len(every) > 1 THEN <<>> ELSE every

\* (mutant) the value is written, the comment marker is left
set_last_commented(cfg, r, value) ==
    [cfg EXCEPT !.heap[r] = [@ EXCEPT !.value = value]]

\* set, lines 116-118: fields[-1].comment = ""; fields[-1].value = value
set_last(cfg, r, value) ==
    [cfg EXCEPT !.heap[r] = [@ EXCEPT !.comment = <<>>, !.value = value]]

\* (mutant) the sections searched in document order, not reversed
found_section_first(secs, section_name) ==
    LET found == {i \in 1..Len(secs) : secs[i].name = section_name}
    IN  IF found = {} THEN 0 ELSE CHOOSE i \in found : \A j \in found : i <= j

\* set, lines 127-131: the position of the last section of that name
\* (for section in reversed(self._sections)), 0 when there is none.
found_section(secs, section_name) ==
    LET found == {i \in 1..Len(secs) : secs[i].name = section_name}
    IN  IF found = {} THEN 0 ELSE CHOOSE i \in found : \A j \in found : j <= i

\* set, lines 119-144: the append path.  Returns the object after the call
\* and the exception raised ("" when it returned).  section_key is assigned
\* only when the key holds the divider; reading it at line 135 otherwise
\* raises UnboundLocalError, before anything is changed.
set_append(cfg, key, value) ==
    LET d            == Find(key, section_divider)
        two          == d > 0                     \* len(parts) == 2
        section_name == IF two THEN SubSeq(key, 1, d - 1) ELSE <<>>
        section_key  == From(key, d + 1)
        section      == found_section(cfg.sections, section_name)
        ref          == Len(cfg.heap) + 1
        field        == [indent     |-> Spaces(default_indent),
                         comment    |-> <<>>,
                         key        |-> section_key,
                         assignment |-> <<"=">>,
                         value      |-> value,
                         ws_post    |-> <<>>]
    IN  IF ~two
        THEN [self |-> cfg, raised |-> "UnboundLocalError"]
        ELSE [self   |-> [sections |->
                             IF section # 0
                             THEN AppendLine(cfg.sections, section,
                                             FieldLine(ref))
                             ELSE Append(cfg.sections,
                                         Section(section_name,
                                                 <<FieldLine(ref)>>)),
                          fields   |-> IndexAppend(cfg.fields, key, ref),
                          heap     |-> Append(cfg.heap, field)],
              raised |-> ""]

\* set(key, value)
set(cfg, key, value) ==
    LET fs == set_fields(cfg, key)
    IN  IF fs # <<>>
        THEN [self |-> set_last(cfg, fs[Len(fs)], value), raised |-> ""]
        ELSE set_append(cfg, key, value)

(***************************************************************************)
(* Inputs.                                                                 *)
(***************************************************************************)
\* All sequences over S of length at most n.
Texts(S, n) == UNION {[1..k -> S] : k \in 0..n}

\* Lines given to the parse / serialize runs.
InputLines ==
    { <<"[", "J", "]">>,                       \* [J]
      <<" ", "[", "J", "]", " ">>,             \* header, whitespace around
      <<"[", " ", "J", " ", "]">>,             \* header, whitespace inside
      <<"k", "=", "1">>,                       \* k=1
      <<"#", "k", " ", "=", " ", "1">>,        \* #k = 1
      <<" ", "k", "=", "1", " ">>,             \* field, whitespace around
      <<>>,                                    \* empty line
      <<"#", "=", "1">>,                       \* comment marker and = only
      <<"k">> }                                \* no '='

\* Lines given to the get / set / comment runs.
CfgLines ==
    { <<"[", "J", "]">>,                       \* [J]
      <<"k", "=", "1">>,                       \* k=1
      <<"k", "=", "2">>,                       \* k=2
      <<"#", "k", "=", "2">>,                  \* #k=2
      <<"#", "k", " ", "=", " ", "1">>,        \* #k = 1
      <<"k", "=", "1", " ">> }                 \* k=1 and a trailing space

\* Arguments of the calls.
Keys == { <<"J", ".", "k">>, <<"k">>, <<".", "k">> }
SetValues == { <<"5">> }
CommentValues == { None, <<>> }

NoCall == [name |-> "init", key |-> <<>>, value |-> None,
           ret |-> None, raised |-> ""]

(***************************************************************************)
(* FileUpdater values that the runs without an update hold fixed.          *)
(***************************************************************************)
\* A path at which no file exists.
Absent == "absent"

\* No execute_command call has been made.
NoExec == [cmd |-> "none", escalate |-> FALSE, sudo_prompt |-> FALSE,
           ret |-> "none"]

\* main() is not running.
NoMain ==
    /\ main = [pc |-> "none", menus |-> <<>>,
               modifications |-> <<>>, tasks |-> <<>>,
               apply |-> "None", iteration |-> 0]
    /\ hist = [selected |-> {}, ran |-> "none", stale |-> FALSE,
               menus |-> <<>>, line |-> "", value |-> ""]

\* No tool is looked up.
NoEnviron == [diffprog |-> "", DIFFPROG |-> "", installed |-> {}]

\* No FileUpdater has been created.
NoUpdate ==
    /\ environ = NoEnviron
    /\ method = "none"
    /\ options = [review |-> FALSE, confirm |-> FALSE, sudo_prompt |-> FALSE]
    /\ delete = FALSE
    /\ target = Absent
    /\ target0 = Absent
    /\ staging = Absent
    /\ upc = "none"
    /\ exec = NoExec
    /\ result = "none"
    /\ exception = ""
    /\ events = <<>>

(***************************************************************************)
(* Parse / serialize runs: construct from any input, then serialize.       *)
(***************************************************************************)
ParseInit ==
    /\ NoMain
    /\ NoUpdate
    /\ opts = DefaultOptions
    /\ lines \in Texts(InputLines, MaxInputLines)
    /\ pc = "new"
    /\ sections = <<>>
    /\ fields = EmptyIndex
    /\ heap = <<>>
    /\ op = NoCall
    /\ pre = [sections |-> <<>>, fields |-> EmptyIndex, heap |-> <<>>]
    /\ nops = 0
    /\ out = <<None>>

\* Configuration(lines)
Construct ==
    /\ pc = "new"
    /\ LET c == Configuration(lines)
       IN  /\ sections' = c.sections
           /\ fields' = c.fields
           /\ heap' = c.heap
           /\ pre' = c
    /\ pc' = "ready"
    /\ UNCHANGED <<lines, op, nops, out, opts>>
    /\ UNCHANGED updVars
    /\ UNCHANGED appVars

\* str(configuration)
Serialize ==
    /\ pc = "ready"
    /\ out' = str(Self)
    /\ pc' = "done"
    /\ UNCHANGED <<lines, sections, fields, heap, op, pre, nops, opts>>
    /\ UNCHANGED updVars
    /\ UNCHANGED appVars

ParseNext == Construct \/ Serialize

ParseSpec == ParseInit /\ [][ParseNext]_vars

(***************************************************************************)
(* Get / set / comment runs on a constructed Configuration.                *)
(***************************************************************************)
ConfigInit ==
    /\ NoMain
    /\ NoUpdate
    /\ opts = DefaultOptions
    /\ lines \in Texts(CfgLines, MaxCfgLines)
    /\ pc = "ready"
    /\ LET c == Configuration(lines)
       IN  /\ sections = c.sections
           /\ fields = c.fields
           /\ heap = c.heap
           /\ pre = c
    /\ op = NoCall
    /\ nops = 0
    /\ out = <<None>>

Called(name, key, value, ret, raised) ==
    /\ op' = [name |-> name, key |-> key, value |-> value,
              ret |-> ret, raised |-> raised]
    /\ pre' = Self
    /\ nops' = nops + 1
    /\ UNCHANGED <<lines, pc, out, opts>>
    /\ UNCHANGED updVars
    /\ UNCHANGED appVars

Get(key) ==
    /\ pc = "ready" /\ nops < MaxOps
    /\ Called("get", key, None, get(Self, key), "")
    /\ UNCHANGED <<sections, fields, heap>>

Comment(key, value) ==
    /\ pc = "ready" /\ nops < MaxOps
    /\ LET c == comment(Self, key, value)
       IN  /\ sections' = c.sections
           /\ fields' = c.fields
           /\ heap' = c.heap
    /\ Called("comment", key, value, None, "")

Set(key, value) ==
    /\ pc = "ready" /\ nops < MaxOps
    /\ LET s == set(Self, key, value)
       IN  /\ sections' = s.self.sections
           /\ fields' = s.self.fields
           /\ heap' = s.self.heap
           /\ Called("set", key, value, None, s.raised)

ConfigNext ==
    \E key \in Keys :
        \/ Get(key)
        \/ \E value \in CommentValues : Comment(key, value)
        \/ \E value \in SetValues : Set(key, value)

ConfigSpec == ConfigInit /\ [][ConfigNext]_vars

(***************************************************************************)
(* Apply / remove cycles on one key: set(key, v), then comment(key, "")    *)
(* and set(key, v) in turn, as journald_limits_size_and_age applies and    *)
(* removes its settings.  `out` keeps str() as taken after the first set.  *)
(***************************************************************************)
CycleInit == ConfigInit

CycleSet(key, value) ==
    /\ pc = "ready" /\ nops < MaxCycleOps
    /\ \/ op.name = "init"
       \/ op.name = "comment" /\ op.key = key
    /\ LET s == set(Self, key, value)
       IN  /\ sections' = s.self.sections
           /\ fields' = s.self.fields
           /\ heap' = s.self.heap
           /\ op' = [name |-> "set", key |-> key, value |-> value,
                     ret |-> None, raised |-> s.raised]
           /\ out' = IF nops = 0 THEN str(s.self) ELSE out
    /\ pre' = Self
    /\ nops' = nops + 1
    /\ UNCHANGED <<lines, pc, opts>>
    /\ UNCHANGED updVars
    /\ UNCHANGED appVars

CycleComment ==
    /\ pc = "ready" /\ nops < MaxCycleOps
    /\ op.name = "set"
    /\ LET c == comment(Self, op.key, <<>>)
       IN  /\ sections' = c.sections
           /\ fields' = c.fields
           /\ heap' = c.heap
    /\ op' = [name |-> "comment", key |-> op.key, value |-> <<>>,
              ret |-> None, raised |-> ""]
    /\ pre' = Self
    /\ nops' = nops + 1
    /\ UNCHANGED <<lines, pc, out, opts>>
    /\ UNCHANGED updVars
    /\ UNCHANGED appVars

CycleNext ==
    \/ \E key \in Keys, value \in SetValues : CycleSet(key, value)
    \/ CycleComment

CycleSpec == CycleInit /\ [][CycleNext]_vars

(***************************************************************************)
(* Runs that construct with options chosen by the caller, then read.       *)
(***************************************************************************)
OptionValues ==
    [comment_char : {<<"#">>, <<>>}, section_divider : {<<".">>, <<>>}]

OptionsInit ==
    /\ NoMain
    /\ NoUpdate
    /\ opts \in OptionValues
    /\ lines \in Texts(InputLines, MaxInputLines)
    /\ pc = "new"
    /\ sections = <<>>
    /\ fields = EmptyIndex
    /\ heap = <<>>
    /\ op = NoCall
    /\ pre = [sections |-> <<>>, fields |-> EmptyIndex, heap |-> <<>>]
    /\ nops = 0
    /\ out = <<None>>

\* Configuration(lines, comment_char=..., section_divider=...)
ConstructWith ==
    /\ pc = "new"
    /\ LET c == Configuration_with(lines, opts)
       IN  /\ sections' = c.self.sections
           /\ fields' = c.self.fields
           /\ heap' = c.self.heap
           /\ pre' = c.self
           /\ op' = [NoCall EXCEPT !.raised = c.raised]
           /\ pc' = IF c.raised = "" THEN "ready" ELSE "failed"
    /\ UNCHANGED <<lines, nops, out, opts>>
    /\ UNCHANGED updVars
    /\ UNCHANGED appVars

OptionsNext ==
    \/ ConstructWith
    \/ Serialize
    \/ Get(<<"k">>)

OptionsSpec == OptionsInit /\ [][OptionsNext]_vars

(***************************************************************************)
(* Vocabulary of the claims.                                               *)
(***************************************************************************)
\* The line is a section header / becomes a Field when parsed.
IsHeader(line) == SECTION_REGEX(line).matched
IsFieldLine(line) ==
    /\ ~IsHeader(line)
    /\ KEY_VALUE_PATTERN(line).matched
    /\ comment_regex(KEY_VALUE_PATTERN(line).key)
           < Len(KEY_VALUE_PATTERN(line).key)

\* The references a section's lines hold, in order; the lines of a document.
AllRefs(cfg) == 1..Len(cfg.heap)
NumLines(cfg) == Len(str(cfg))
IsActive(cfg, r) == cfg.heap[r].comment = <<>>

\* The position in the key's index entry of its last active field, 0 if none.
LastActive(cfg, key) ==
    LET e == IndexGet(cfg.fields, key)
        a == {i \in 1..Len(e) : IsActive(cfg, e[i])}
    IN  IF a = {} THEN 0 ELSE CHOOSE i \in a : \A j \in a : j <= i

\* Every field object other than r is as it was before the call.
OthersUnchanged(r) ==
    \A q \in AllRefs(pre) : q # r => heap[q] = pre.heap[q]

(***************************************************************************)
(* C1.  Round-trip.                                                        *)
(***************************************************************************)
\* A header is written canonically when it is exactly '[' name ']' for the
\* name the parser stores, and separated when it is the first line or the
\* line before it is blank.
HeadersCanonical(ls) ==
    \A i \in 1..Len(ls) :
        IsHeader(ls[i]) =>
            ls[i] = <<"[">> \o SECTION_REGEX(ls[i]).name \o <<"]">>
IsBlank(line) == \A i \in 1..Len(line) : line[i] \in {" ", "\t"}
HeadersSeparated(ls) ==
    \A i \in 2..Len(ls) : IsHeader(ls[i]) => IsBlank(ls[i - 1])

\* C1 as stated: for every text made only of section header lines and
\* key/value lines, serializing the freshly parsed Configuration yields
\* exactly the original lines.
C1_RoundTrip_AsStated ==
    (pc = "done" /\ \A i \in 1..Len(lines) :
                        IsHeader(lines[i]) \/ IsFieldLine(lines[i]))
        => out = lines

\* C1 amended: serializing a freshly parsed Configuration yields exactly the
\* original lines if and only if every header line is written '[name]' with
\* no whitespace before '[', after '[' or after ']', and every header that
\* is not the first line directly follows a blank line.  Key/value lines and
\* raw lines are always reproduced exactly.
C1_RoundTrip ==
    pc = "done" =>
        (out = lines <=> HeadersCanonical(lines) /\ HeadersSeparated(lines))

\* A field with whitespace around it, a blank line and a header round-trip.
C1_Witness ==
    /\ pc = "done"
    /\ Len(lines) = 3
    /\ IsFieldLine(lines[1]) /\ lines[1][1] = " "
    /\ lines[2] = <<>>
    /\ IsHeader(lines[3])
    /\ out = lines

(***************************************************************************)
(* Vocabulary of the claims about a call: the key's index entry before the *)
(* call, and the section the key names.                                    *)
(***************************************************************************)
PreEntry == IndexGet(pre.fields, op.key)
PreAllCommented == \A i \in 1..Len(PreEntry) : ~IsActive(pre, PreEntry[i])

\* The call was a set() that found no field to write to and went on to append.
TookAppendPath ==
    /\ op.name = "set"
    /\ PreAllCommented
    /\ Len(PreEntry) # 1

HasDivider(key) == \E i \in 1..Len(key) : key[i] = "."
SectionPart(key) ==
    SubSeq(key, 1, (CHOOSE i \in 1..Len(key) :
                       key[i] = "." /\ \A j \in 1..(i - 1) : key[j] # ".") - 1)
KeyPart(key) == From(key, Len(SectionPart(key)) + 2)
PreNamed(name) == {i \in 1..Len(pre.sections) : pre.sections[i].name = name}

\* The call appended exactly one new field object, active, with the value
\* given, and left every existing field object as it was.
AppendedOne ==
    /\ Len(heap) = Len(pre.heap) + 1
    /\ \A r \in AllRefs(pre) : heap[r] = pre.heap[r]
    /\ heap[Len(heap)].comment = <<>>
    /\ heap[Len(heap)].value = op.value

(***************************************************************************)
(* C2.  '#k = 1' in [J], then set('J.k', '5').                             *)
(***************************************************************************)
C2_Input == << <<"[", "J", "]">>, <<"#", "k", " ", "=", " ", "1">> >>

\* C2: the line written with whitespace around '=' is indexed under 'J.k',
\* so set('J.k', '5') edits it in place: the result is '[J]', 'k = 5', with
\* no line added.
C2_EditInPlace ==
    (/\ lines = C2_Input
     /\ nops = 1
     /\ op.name = "set" /\ op.key = <<"J", ".", "k">> /\ op.value = <<"5">>)
        => /\ Len(PreEntry) = 1
           /\ str(Self) = << <<"[", "J", "]">>, <<"k", " ", "=", " ", "5">> >>

(***************************************************************************)
(* C3.  Uncomment-on-set.                                                  *)
(***************************************************************************)
\* C3: when the key has exactly one field and it is commented, set(key, x)
\* clears that field's comment marker and sets its value to x; nothing else
\* of the field changes and the document has the same sections and the same
\* number of lines.
C3_UncommentOnSet ==
    (op.name = "set" /\ Len(PreEntry) = 1 /\ PreAllCommented) =>
        LET r == PreEntry[1]
        IN  /\ op.raised = ""
            /\ heap[r] = [pre.heap[r] EXCEPT !.comment = <<>>,
                                             !.value = op.value]
            /\ OthersUnchanged(r)
            /\ Len(heap) = Len(pre.heap)
            /\ sections = pre.sections
            /\ fields = pre.fields
            /\ NumLines(Self) = NumLines(pre)

C3_Witness ==
    /\ op.name = "set" /\ Len(PreEntry) = 1 /\ PreAllCommented
    /\ pre.heap[PreEntry[1]].value # op.value
    /\ IsActive(Self, PreEntry[1])
    /\ get(Self, op.key) = op.value

(***************************************************************************)
(* C4.  Set idempotence.                                                   *)
(***************************************************************************)
\* C4: after set(key, v), a second set(key, v) leaves the object and its
\* serialized output as the first one left them.
C4_SetIdempotent ==
    op.name = "set" =>
        LET again == set(Self, op.key, op.value)
        IN  /\ again.self = Self
            /\ str(again.self) = str(Self)
            /\ again.raised = op.raised

\* The first set() appended a field; the second one finds it.
C4_Witness ==
    /\ op.name = "set"
    /\ Len(heap) = Len(pre.heap) + 1
    /\ set(Self, op.key, op.value).self = Self

(***************************************************************************)
(* C5.  Get.                                                               *)
(***************************************************************************)
\* C5: get(key) returns the value of the last field of the key's index entry
\* whose comment marker is empty, the empty string when there is none, and
\* changes nothing.
C5_Get ==
    op.name = "get" =>
        /\ Self = pre
        /\ op.ret = IF LastActive(pre, op.key) = 0 THEN <<>>
                    ELSE pre.heap[PreEntry[LastActive(pre, op.key)]].value

\* Two active fields with different values: the later one's is returned.
C5_Witness ==
    /\ op.name = "get"
    /\ \E i, j \in 1..Len(PreEntry) :
          /\ i < j
          /\ IsActive(pre, PreEntry[i]) /\ IsActive(pre, PreEntry[j])
          /\ pre.heap[PreEntry[i]].value # pre.heap[PreEntry[j]].value
          /\ op.ret = pre.heap[PreEntry[j]].value

(***************************************************************************)
(* C6.  Ambiguous-append.                                                  *)
(***************************************************************************)
\* C6: when the key has two or more fields, all commented, set(key, x)
\* leaves them as they are and appends exactly one new active field with
\* value x, registered last in the key's index entry.
C6_AmbiguousAppend ==
    (op.name = "set" /\ Len(PreEntry) >= 2 /\ PreAllCommented) =>
        /\ AppendedOne
        /\ IndexGet(fields, op.key) = Append(PreEntry, Len(heap))

(***************************************************************************)
(* C7.  Append-to-existing-section.                                        *)
(***************************************************************************)
\* C7: when set('S.k', v) takes the append path, the new field becomes the
\* last line of the last section named S and no section is added; only when
\* no section is named S is one new section S, holding only the new field,
\* added at the end.
C7_AppendToSection ==
    (TookAppendPath /\ HasDivider(op.key)) =>
        LET S     == SectionPart(op.key)
            named == PreNamed(S)
            m     == CHOOSE i \in named : \A j \in named : j <= i
            new   == FieldLine(Len(heap))
        IN  /\ AppendedOne
            /\ heap[Len(heap)].key = KeyPart(op.key)
            /\ IF named # {}
               THEN /\ Len(sections) = Len(pre.sections)
                    /\ sections[m] =
                         Section(S, Append(pre.sections[m].lines, new))
                    /\ \A i \in 1..Len(sections) :
                          i # m => sections[i] = pre.sections[i]
               ELSE sections = Append(pre.sections, Section(S, <<new>>))

\* Two sections are named S: the field went to the later one.
C7_Witness ==
    /\ TookAppendPath /\ HasDivider(op.key)
    /\ Cardinality(PreNamed(SectionPart(op.key))) >= 2
    /\ Len(sections) = Len(pre.sections)
    /\ \E m \in PreNamed(SectionPart(op.key)) :
          /\ Len(sections[m].lines) = Len(pre.sections[m].lines) + 1
          /\ \A j \in PreNamed(SectionPart(op.key)) : j <= m

(***************************************************************************)
(* C8.  set() of a key without the divider.                                *)
(***************************************************************************)
\* C8: set(key, v) for a key that holds no divider and has no field returns
\* without error and appends an active field key=v to the unnamed section,
\* registered under the bare key, so that get(key) returns v.
C8_SetBareKey ==
    (op.name = "set" /\ ~HasDivider(op.key) /\ PreEntry = <<>>) =>
        /\ op.raised = ""
        /\ AppendedOne
        /\ sections[1] = Section(<<>>, Append(pre.sections[1].lines,
                                              FieldLine(Len(heap))))
        /\ IndexGet(fields, op.key) = <<Len(heap)>>
        /\ get(Self, op.key) = op.value

(***************************************************************************)
(* C9.  Comment.                                                           *)
(***************************************************************************)
\* C9: comment(key, v) changes exactly the last active field of the key: its
\* comment marker becomes the comment character and, only when v is given,
\* its value becomes v; with no active field nothing changes.
C9_Comment ==
    op.name = "comment" =>
        IF LastActive(pre, op.key) = 0
        THEN Self = pre
        ELSE LET r == PreEntry[LastActive(pre, op.key)]
             IN  /\ heap[r] =
                      [pre.heap[r] EXCEPT
                          !.comment = <<"#">>,
                          !.value = IF op.value = None THEN @ ELSE op.value]
                 /\ OthersUnchanged(r)
                 /\ Len(heap) = Len(pre.heap)
                 /\ sections = pre.sections
                 /\ fields = pre.fields

\* Two active fields, a replacement value: only the later one is commented.
C9_Witness ==
    /\ op.name = "comment" /\ op.value # None
    /\ \E i, j \in 1..Len(PreEntry) :
          /\ i < j
          /\ IsActive(pre, PreEntry[i]) /\ IsActive(pre, PreEntry[j])
          /\ IsActive(Self, PreEntry[i]) /\ ~IsActive(Self, PreEntry[j])
          /\ pre.heap[PreEntry[j]].value # op.value
          /\ heap[PreEntry[j]].value = op.value

(***************************************************************************)
(* C10.  Index consistency.                                                *)
(***************************************************************************)
\* The key a field held by a section must be indexed under.
QualifiedKey(name, key) ==
    IF name # <<>> THEN name \o <<".">> \o key ELSE key

\* The places (section, line) that hold reference r; the places (key,
\* position) of the index that hold it.
HeldAt(cfg, r) ==
    {p \in UNION {{<<i, j>> : j \in 1..Len(cfg.sections[i].lines)} :
                     i \in 1..Len(cfg.sections)} :
        /\ cfg.sections[p[1]].lines[p[2]].field
        /\ cfg.sections[p[1]].lines[p[2]].ref = r}
IndexedAt(cfg, r) ==
    UNION {{<<k, n>> : n \in {n \in 1..Len(cfg.fields[k]) :
                                 cfg.fields[k][n] = r}} :
              k \in DOMAIN cfg.fields}

\* C10: every field held by a section is in the index exactly once, under
\* section name + divider + key (the bare key in the unnamed section), and
\* every index entry refers to a field held by exactly one section line.
C10_IndexConsistent ==
    pc = "ready" =>
        \A r \in AllRefs(Self) :
            /\ Cardinality(HeldAt(Self, r)) = 1
            /\ \A p \in HeldAt(Self, r) :
                  \E n \in 1..Len(heap) :
                      IndexedAt(Self, r) =
                          {<<QualifiedKey(sections[p[1]].name, heap[r].key),
                             n>>}

(***************************************************************************)
(* FileUpdater.                                                            *)
(*                                                                         *)
(* A file is modelled by its content (Absent when no file exists at the    *)
(* path).  apply / remove run inside `with FileUpdater...(...) as updater`;*)
(* they block at each prompt, tool launch and command run, and `upc` is    *)
(* the point at which the update is waiting.  A command that fails leaves  *)
(* the target as it was; the review tools act on the staging file only.    *)
(***************************************************************************)
Contents == {"A", "B"}

\* from_content: the content written to the staging file.
StagedContent == "A"

\* FileUpdaterOptions(review, confirm, sudo_prompt)
FileUpdaterOptions ==
    [review : BOOLEAN, confirm : BOOLEAN, sudo_prompt : BOOLEAN]

\* main(): the options every modification is called with.
ModificationOptions(non_interactive) ==
    [review      |-> ~non_interactive,
     confirm     |-> ~non_interactive,
     sudo_prompt |-> ~non_interactive]

Event(kind, what, res) == [kind |-> kind, what |-> what, res |-> res]

\* Path.exists()
exists(f) == f # Absent

\* FileUpdater.matches
matches(t, s) == exists(t) /\ t = s

after_review_execute(o) == "execute"

after_review_confirm(o) == "confirm_prompt"

\* apply / remove, `if not self.options.confirm or tui.prompt_yes_no(...)`:
\* where the update goes once the review is over.
after_review(o) == IF ~o.confirm THEN "execute" ELSE "confirm_prompt"

apply_begin_unmatched(t, s, o) ==
    IF o.review THEN "review_prompt" ELSE after_review(o)

\* apply, lines 158-176, up to its first prompt or command.
apply_begin(t, s, o) ==
    IF matches(t, s) THEN "skip"
    ELSE IF o.review THEN "review_prompt"
    ELSE after_review(o)

remove_begin_present(t, s, o) ==
    IF o.review /\ ~matches(t, s) THEN "review_prompt" ELSE after_review(o)

\* remove, lines 125-140, up to its first prompt or command.
remove_begin(t, s, o) ==
    IF ~exists(t) THEN "skip"
    ELSE IF o.review /\ ~matches(t, s) THEN "review_prompt"
    ELSE after_review(o)

\* The tool the review launches: launch_editor(staging) when apply finds no
\* target, launch_diff_tool(target, staging) otherwise.
review_tool(m, t) == IF m = "apply" /\ ~exists(t) THEN "editor" ELSE "diff"

after_confirm_proceed(yes) == "execute"

\* The answer to the confirm prompt: go on, or skip and return True.
after_confirm(yes) == IF yes THEN "execute" ELSE "skip"

execute_args_no_escalate(m, o) ==
    [cmd         |-> IF m = "apply" THEN "install" ELSE "unlink",
     escalate    |-> FALSE,
     sudo_prompt |-> o.sudo_prompt,
     ret         |-> "none"]

execute_args_prompting(m, o) ==
    [cmd         |-> IF m = "apply" THEN "install" ELSE "unlink",
     escalate    |-> TRUE,
     sudo_prompt |-> TRUE,
     ret         |-> "none"]

\* The execute_command call apply / remove make.
execute_args(m, o) ==
    [cmd         |-> IF m = "apply" THEN "install" ELSE "unlink",
     escalate    |-> TRUE,
     sudo_prompt |-> o.sudo_prompt,
     ret         |-> "none"]

return_True(ret) == "True"

\* apply / remove, `return result`.
return_result(ret) == ret

exit_staging_keep(d, s) == s

\* __exit__: `if self.delete: self.staging.unlink()`.
exit_staging(d, s) == IF d THEN Absent ELSE s

\* The lines the operator may type at a prompt; "EOF" is the end of input.
InputAnswers == {"y", "n", "yes", "N", "", "x", "EOF"}

\* str.lower on those lines.
lower(a) == IF a = "N" THEN "n" ELSE a

PROMPT_YES_NO_ALTERNATES(a) ==
    IF a = "yes" THEN "y" ELSE IF a = "no" THEN "n" ELSE a

\* tui.prompt with answers ["y", "n"] and no default: the answer one line
\* gives, "invalid" when the loop asks again.
prompt(line) ==
    LET answer == PROMPT_YES_NO_ALTERNATES(lower(line))
    IN  IF answer \in {"y", "n"} THEN answer ELSE "invalid"

\* tui.prompt_yes_no
prompt_yes_no(line) == prompt(line) = "y"

\* What the command does to the target when it succeeds.
command_effect(cmd, t, s) == IF cmd = "install" THEN s ELSE Absent

(***************************************************************************)
(* execute_command(command, escalate, sudo_prompt): where the call goes    *)
(* after each run.  "True" / "False" is what it returns.                   *)
(***************************************************************************)
execute_after_direct_sudo(ok, escalate, sudo_prompt) ==
    IF ok THEN "True" ELSE "sudo"

execute_after_direct(ok, escalate, sudo_prompt) ==
    IF ok THEN "True"
    ELSE IF ~escalate THEN "False"
    ELSE IF ~sudo_prompt THEN "probe"
    ELSE "sudo"

execute_after_probe(ok) == IF ok THEN "sudo" ELSE "False"

execute_after_sudo(ok) == IF ok THEN "True" ELSE "False"

\* The escalated run: with sudo's no-prompt flag unless a prompt is allowed.
sudo_run(sudo_prompt) == IF sudo_prompt THEN "sudo" ELSE "sudo -n"

(***************************************************************************)
(* Tool resolution.  A command is named by its program ("nvim" for         *)
(* "nvim -d"); which() finds the programs in environ.installed.            *)
(***************************************************************************)
Programs == {"meld", "kdiff3", "nvim", "vim"}

\* The diffprog argument, os.environ.get("DIFFPROG", "") and the programs
\* on the search path.
Environs ==
    [diffprog : {"", "meld"}, DIFFPROG : {"", "kdiff3"},
     installed : SUBSET Programs]

\* diff_merge: the list the loop goes through.
diff_candidates(diffprog, env) == <<diffprog, env, "nvim", "vim">>

diff_merge_last(diffprog, env, installed) ==
    LET cs == diff_candidates(diffprog, env)
        ok == {i \in DOMAIN cs : cs[i] # "" /\ cs[i] \in installed}
    IN  IF ok = {} THEN "RuntimeError"
        ELSE cs[CHOOSE i \in ok : \A j \in ok : j <= i]

\* diff_merge: the program run, the first candidate that is not empty and
\* that which() finds; "RuntimeError" when the loop ends without one.
diff_merge(diffprog, env, installed) ==
    LET cs == diff_candidates(diffprog, env)
        ok == {i \in DOMAIN cs : cs[i] # "" /\ cs[i] \in installed}
    IN  IF ok = {} THEN "RuntimeError"
        ELSE cs[CHOOSE i \in ok : \A j \in ok : i <= j]

(***************************************************************************)
(* The update as a state machine.                                          *)
(***************************************************************************)
\* No Configuration object takes part.
NoConfiguration ==
    /\ lines = <<>>
    /\ opts = DefaultOptions
    /\ pc = "none"
    /\ sections = <<>>
    /\ fields = EmptyIndex
    /\ heap = <<>>
    /\ op = NoCall
    /\ pre = [sections |-> <<>>, fields |-> EmptyIndex, heap |-> <<>>]
    /\ nops = 0
    /\ out = <<None>>

\* The with block has been entered: the staging file holds the content.
UpdateInit ==
    /\ NoMain
    /\ NoConfiguration
    /\ environ \in Environs
    /\ method \in {"apply", "remove"}
    /\ options \in FileUpdaterOptions
    /\ delete \in BOOLEAN
    /\ target \in Contents \cup {Absent}
    /\ target0 = target
    /\ staging = StagedContent
    /\ upc = "staged"
    /\ exec = NoExec
    /\ result = "none"
    /\ exception = ""
    /\ events = <<>>

\* Go on to `nxt` with the events `evs`: return True on a skip, call
\* execute_command on "execute", wait at the prompt otherwise.
Proceed(nxt, evs) ==
    /\ upc' = IF nxt = "skip" THEN "returned"
              ELSE IF nxt = "execute" THEN "direct" ELSE nxt
    /\ result' = IF nxt = "skip" THEN "True" ELSE result
    /\ exec' = IF nxt = "execute" THEN execute_args(method, options) ELSE exec
    /\ events' =
         IF nxt = "execute"
         THEN Append(evs, Event("execute",
                                execute_args(method, options).cmd,
                                IF execute_args(method, options).escalate
                                THEN "escalate" ELSE "no escalate"))
         ELSE evs

\* An exception leaves apply / remove.
Raise(e, evs) ==
    /\ upc' = "raised"
    /\ exception' = e
    /\ events' = evs
    /\ UNCHANGED <<result, exec>>

\* updater.apply() / updater.remove() is called.
Begin ==
    /\ upc = "staged"
    /\ Proceed(IF method = "apply"
               THEN apply_begin(target, staging, options)
               ELSE remove_begin(target, staging, options), events)
    /\ UNCHANGED <<environ, method, options, delete, target, target0, staging,
                   exception>>
    /\ UNCHANGED cfgVars
    /\ UNCHANGED appVars

\* A line is read at the review prompt, or the input ends.
ReviewPrompt(line) ==
    /\ upc = "review_prompt"
    /\ LET evs == Append(events, Event("prompt", "review", prompt(line)))
       IN  IF line = "EOF"
           THEN Raise("EOFError",
                      Append(events, Event("prompt", "review", "EOF")))
           ELSE IF prompt(line) = "invalid"
           THEN UNCHANGED <<upc, result, exec, events, exception>>
           ELSE /\ Proceed(IF prompt_yes_no(line) THEN "review_tool"
                           ELSE after_review(options), evs)
                /\ UNCHANGED exception
    /\ UNCHANGED <<environ, method, options, delete, target, target0, staging>>
    /\ UNCHANGED cfgVars
    /\ UNCHANGED appVars

\* launch_editor / launch_diff_tool: no program is found and the call
\* raises, or the program runs and the operator may edit the staging file.
\* The diff tool is resolved as diff_merge does; whether an editor is found
\* is open.
ReviewTool(found, edited) ==
    /\ upc = "review_tool"
    /\ LET tool == review_tool(method, target)
           run  == IF tool = "diff"
                   THEN diff_merge(environ.diffprog, environ.DIFFPROG,
                                   environ.installed)
                   ELSE IF found THEN "editor" ELSE "RuntimeError"
       IN  IF run = "RuntimeError"
           THEN /\ Raise("RuntimeError",
                         Append(events, Event("tool", tool, "not found")))
                /\ UNCHANGED staging
           ELSE /\ Proceed(after_review(options),
                           Append(events, Event("tool", tool, run)))
                /\ staging' = edited
                /\ UNCHANGED exception
    /\ UNCHANGED <<environ, method, options, delete, target, target0>>
    /\ UNCHANGED cfgVars
    /\ UNCHANGED appVars

\* A line is read at the confirm prompt, or the input ends.
ConfirmPrompt(line) ==
    /\ upc = "confirm_prompt"
    /\ LET evs == Append(events, Event("prompt", "confirm", prompt(line)))
       IN  IF line = "EOF"
           THEN Raise("EOFError",
                      Append(events, Event("prompt", "confirm", "EOF")))
           ELSE IF prompt(line) = "invalid"
           THEN UNCHANGED <<upc, result, exec, events, exception>>
           ELSE /\ Proceed(after_confirm(prompt_yes_no(line)), evs)
                /\ UNCHANGED exception
    /\ UNCHANGED <<environ, method, options, delete, target, target0, staging>>
    /\ UNCHANGED cfgVars
    /\ UNCHANGED appVars

\* execute_command goes to `nxt`: another run, or its return.
Executor(nxt) ==
    IF nxt \in {"True", "False"}
    THEN /\ exec' = [exec EXCEPT !.ret = nxt]
         /\ upc' = "executed"
    ELSE /\ upc' = nxt
         /\ UNCHANGED exec

\* execute_command runs the command as given.
RunDirect(ok) ==
    /\ upc = "direct"
    /\ events' = Append(events,
                        Event("run", "direct", IF ok THEN "ok" ELSE "fail"))
    /\ target' = IF ok THEN command_effect(exec.cmd, target, staging)
                 ELSE target
    /\ Executor(execute_after_direct(ok, exec.escalate, exec.sudo_prompt))
    /\ UNCHANGED <<environ, method, options, delete, target0, staging, result,
                   exception>>
    /\ UNCHANGED cfgVars
    /\ UNCHANGED appVars

\* execute_command asks sudo, without prompting, whether a credential is
\* cached.
RunProbe(ok) ==
    /\ upc = "probe"
    /\ events' = Append(events,
                        Event("run", "probe", IF ok THEN "ok" ELSE "fail"))
    /\ Executor(execute_after_probe(ok))
    /\ UNCHANGED <<environ, method, options, delete, target, target0, staging, result,
                   exception>>
    /\ UNCHANGED cfgVars
    /\ UNCHANGED appVars

\* execute_command runs the command again under sudo.
RunSudo(ok) ==
    /\ upc = "sudo"
    /\ events' = Append(events,
                        Event("run", sudo_run(exec.sudo_prompt),
                              IF ok THEN "ok" ELSE "fail"))
    /\ target' = IF ok THEN command_effect(exec.cmd, target, staging)
                 ELSE target
    /\ Executor(execute_after_sudo(ok))
    /\ UNCHANGED <<environ, method, options, delete, target0, staging, result,
                   exception>>
    /\ UNCHANGED cfgVars
    /\ UNCHANGED appVars

\* execute_command has returned: apply / remove return its result.
Return ==
    /\ upc = "executed"
    /\ result' = return_result(exec.ret)
    /\ upc' = "returned"
    /\ UNCHANGED <<environ, method, options, delete, target, target0, staging, exec,
                   exception, events>>
    /\ UNCHANGED cfgVars
    /\ UNCHANGED appVars

\* FileUpdater.__exit__: the with block is left, by return or by exception.
Exit ==
    /\ upc \in {"returned", "raised"}
    /\ staging' = exit_staging(delete, staging)
    /\ upc' = "exited"
    /\ UNCHANGED <<environ, method, options, delete, target, target0, exec, result,
                   exception, events>>
    /\ UNCHANGED cfgVars
    /\ UNCHANGED appVars

UpdateNext ==
    \/ Begin
    \/ \E line \in InputAnswers : ReviewPrompt(line)
    \/ \E found \in BOOLEAN, edited \in Contents : ReviewTool(found, edited)
    \/ \E line \in InputAnswers : ConfirmPrompt(line)
    \/ \E ok \in BOOLEAN : RunDirect(ok)
    \/ \E ok \in BOOLEAN : RunProbe(ok)
    \/ \E ok \in BOOLEAN : RunSudo(ok)
    \/ Return
    \/ Exit

UpdateSpec == UpdateInit /\ [][UpdateNext]_vars

(***************************************************************************)
(* execute_command called on its own, with every setting of its options.   *)
(***************************************************************************)
ExecuteInit ==
    /\ NoMain
    /\ NoConfiguration
    /\ environ = NoEnviron
    /\ method = "execute"
    /\ options = [review |-> FALSE, confirm |-> FALSE, sudo_prompt |-> FALSE]
    /\ delete = FALSE
    /\ target \in Contents \cup {Absent}
    /\ target0 = target
    /\ staging \in Contents
    /\ upc = "direct"
    /\ exec \in [cmd : {"install", "unlink"}, escalate : BOOLEAN,
                 sudo_prompt : BOOLEAN, ret : {"none"}]
    /\ result = "none"
    /\ exception = ""
    /\ events = <<>>

ExecuteNext ==
    \/ \E ok \in BOOLEAN : RunDirect(ok)
    \/ \E ok \in BOOLEAN : RunProbe(ok)
    \/ \E ok \in BOOLEAN : RunSudo(ok)

ExecuteSpec == ExecuteInit /\ [][ExecuteNext]_vars

(***************************************************************************)
(* Claims about FileUpdater.                                               *)
(***************************************************************************)
EventsOf(kind) == {i \in DOMAIN events : events[i].kind = kind}

\* apply / remove returned normally.
Returned == upc \in {"returned", "exited"} /\ exception = ""

\* The operator answered no at the "Proceed" prompt.
Declined == \E i \in DOMAIN events : events[i] = Event("prompt", "confirm", "n")

\* The command ran, as given or under sudo, and succeeded.
CommandSucceeded ==
    \E i \in EventsOf("run") : events[i].what # "probe" /\ events[i].res = "ok"

\* Nothing was asked, launched or run.
Quiet == events = <<>> /\ exec = NoExec

\* C11: apply on a target whose content equals the staged content returns
\* True with no prompt, no tool, no command and the target as it was,
\* whatever the review / confirm options are.
C11_SkipOnMatch ==
    (method = "apply" /\ target0 = StagedContent /\ upc # "staged")
        => /\ Returned
           /\ result = "True"
           /\ Quiet
           /\ target = target0

C11_Witness ==
    /\ method = "apply"
    /\ target0 = StagedContent
    /\ options.review
    /\ options.confirm
    /\ upc = "returned"

\* C12: when the operator answers no at the "Proceed" prompt, apply and
\* remove return True, no command is handed to the executor or run, and
\* the target is as it was.
C12_DeclineIsSuccess ==
    Declined
        => /\ Returned
           /\ result = "True"
           /\ EventsOf("execute") = {}
           /\ EventsOf("run") = {}
           /\ exec = NoExec
           /\ target = target0

C12_Witness ==
    /\ Declined
    /\ method = "remove"
    /\ options.confirm
    /\ upc = "exited"

\* C13: an update that returns has handed at most one command to the
\* executor; if one, it is install (apply) or unlink (remove) with
\* escalation enabled, the update returns the executor's result, and that
\* is False whenever the command failed; if none, the update returns True
\* and the target matched already (apply), was absent already (remove), or
\* the operator declined.
C13_FailureSurfaced ==
    Returned
        => /\ Cardinality(EventsOf("execute")) <= 1
           /\ EventsOf("execute") # {}
                => /\ exec.cmd = (IF method = "apply" THEN "install"
                                  ELSE "unlink")
                   /\ exec.escalate
                   /\ exec.ret \in {"True", "False"}
                   /\ result = exec.ret
                   /\ ~CommandSucceeded => result = "False"
           /\ EventsOf("execute") = {}
                => /\ result = "True"
                   /\ \/ method = "apply" /\ target0 = StagedContent
                      \/ method = "remove" /\ target0 = Absent
                      \/ Declined

C13_Witness ==
    /\ Returned
    /\ EventsOf("execute") # {}
    /\ ~CommandSucceeded
    /\ result = "False"

\* C14: once the with block is left, a staging file the update created
\* itself (delete set) is gone, whether the update skipped, was declined,
\* ran its command with or without success, or raised from a prompt or
\* from a review tool; a staging file the caller supplied (delete not set)
\* is never removed.
C14_StagingCleanup ==
    /\ (delete /\ upc = "exited") => staging = Absent
    /\ ~delete => staging # Absent

C14_Witness ==
    /\ delete
    /\ upc = "exited"
    /\ exception = "RuntimeError"
    /\ staging = Absent

\* C15: remove of a target that does not exist returns True with no
\* prompt, no tool and no command, whatever the review / confirm options
\* are.
C15_RemoveAbsent ==
    (method = "remove" /\ target0 = Absent /\ upc # "staged")
        => /\ Returned
           /\ result = "True"
           /\ Quiet
           /\ target = Absent

C15_Witness ==
    /\ method = "remove"
    /\ target0 = Absent
    /\ options.review
    /\ options.confirm
    /\ upc = "returned"

\* The place of each waiting point in the protocol.
Rank(p) ==
    CASE p = "staged"         -> 0
      [] p = "review_prompt"  -> 1
      [] p = "review_tool"    -> 2
      [] p = "confirm_prompt" -> 3
      [] p = "direct"         -> 4
      [] p = "probe"          -> 5
      [] p = "sudo"           -> 6
      [] p = "executed"       -> 7
      [] p = "returned"       -> 8
      [] p = "raised"         -> 8
      [] p = "exited"         -> 9

\* Review events come before the confirm prompt, the confirm prompt before
\* the command is handed over, and that before any run.
EventRank(e) ==
    CASE e.kind = "prompt" /\ e.what = "review"  -> 1
      [] e.kind = "tool"                         -> 2
      [] e.kind = "prompt" /\ e.what = "confirm" -> 3
      [] e.kind = "execute"                      -> 4
      [] e.kind = "run"                          -> 5

EventsOrdered ==
    \A i, j \in DOMAIN events :
        i < j => /\ EventRank(events[i]) <= EventRank(events[j])
                 /\ events[j].kind # "run"
                      => EventRank(events[i]) < EventRank(events[j])

\* With confirm enabled the command is handed over only after a yes.
ConfirmedBeforeExecute ==
    \A j \in EventsOf("execute") :
        options.confirm
            => \E i \in 1..(j - 1) : events[i] = Event("prompt", "confirm", "y")

\* C16: the steps of apply / remove only go forward through Staged, the
\* review prompt and tool, the confirm prompt, the execution and Done; the
\* command is never executed before the confirm prompt was answered yes
\* when confirm is enabled, no review step follows the confirm prompt, and
\* only a run of the command changes the target.
C16_ProtocolOrdering ==
    /\ [](EventsOrdered /\ ConfirmedBeforeExecute)
    /\ [][/\ Rank(upc') > Rank(upc)
          /\ target' # target => upc \in {"direct", "sudo"}]_vars

C16_Witness ==
    /\ upc = "exited"
    /\ options.confirm
    /\ EventsOf("tool") # {}
    /\ EventsOf("execute") # {}
    /\ target # target0

\* The runs of the command itself and of the credential probe.
Runs(what) == {i \in EventsOf("run") : events[i].what = what}

SudoRuns == Runs("sudo") \cup Runs("sudo -n")

DirectFailed == \E i \in Runs("direct") : events[i].res = "fail"

\* execute_command has returned.
Executed == upc \in {"executed", "returned", "exited"}

\* C17: apply / remove hand their command over with escalation enabled;
\* when its direct run fails and a sudo prompt is allowed, the command is
\* run again under sudo, once and with no probe, and the executor returns
\* True if and only if that run succeeded.
C17_EscalationFallback ==
    (DirectFailed /\ options.sudo_prompt)
        => /\ Runs("probe") = {}
           /\ Runs("sudo -n") = {}
           /\ Cardinality(Runs("direct")) = 1
           /\ IF upc = "sudo" THEN Runs("sudo") = {}
              ELSE /\ Executed
                   /\ Cardinality(Runs("sudo")) = 1
                   /\ \A i \in Runs("sudo") :
                        /\ i = Len(events)
                        /\ exec.ret = "True" <=> events[i].res = "ok"
                        /\ exec.ret = "False" <=> events[i].res = "fail"

C17_Witness ==
    /\ DirectFailed
    /\ options.sudo_prompt
    /\ Executed
    /\ \E i \in Runs("sudo") : events[i].res = "fail"
    /\ exec.ret = "False"

\* C18: when the direct run fails and no sudo prompt is allowed, the
\* cached credential is probed first; if the probe fails the executor
\* returns False at once, the command is not run under sudo, no run that
\* could ask for a password is made, and the target is as it was.
C18_NonInteractiveNeverBlocks ==
    (DirectFailed /\ ~options.sudo_prompt)
        => /\ Runs("sudo") = {}
           /\ upc = "probe" <=> Runs("probe") = {}
           /\ Cardinality(Runs("probe")) <= 1
           /\ \A j \in SudoRuns :
                \E i \in Runs("probe") : i < j /\ events[i].res = "ok"
           /\ \A i \in Runs("probe") :
                events[i].res = "fail"
                    => /\ Executed
                       /\ exec.ret = "False"
                       /\ SudoRuns = {}
                       /\ i = Len(events)
                       /\ target = target0

C18_Witness ==
    /\ DirectFailed
    /\ ~options.sudo_prompt
    /\ \E i \in Runs("probe") : events[i].res = "fail"
    /\ upc = "executed"
    /\ exec.ret = "False"

\* C19: the command is run under sudo only after its direct run failed
\* and only when escalation is permitted; a direct success ends the call
\* with True and no run under sudo, a direct failure with escalation
\* disabled ends it with False and no further run, and a call makes at
\* most one direct run and at most one run under sudo.
C19_LeastPrivilege ==
    /\ Cardinality(Runs("direct")) <= 1
    /\ Cardinality(SudoRuns) <= 1
    /\ \A j \in SudoRuns \cup Runs("probe") :
         /\ exec.escalate
         /\ \E i \in Runs("direct") : i < j /\ events[i].res = "fail"
    /\ \A i \in Runs("direct") :
         /\ events[i].res = "ok"
              => upc = "executed" /\ exec.ret = "True" /\ Len(events) = 1
         /\ (events[i].res = "fail" /\ ~exec.escalate)
              => upc = "executed" /\ exec.ret = "False" /\ Len(events) = 1

C19_Witness ==
    /\ ~exec.escalate
    /\ DirectFailed
    /\ upc = "executed"
    /\ exec.ret = "False"
    /\ target = target0

\* C20: with review and confirm both disabled, as --non-interactive sets
\* them, apply and remove ask nothing and launch nothing whether the
\* target is absent, matches or differs, and unless the update is a skip
\* the first thing they do is hand the command to the executor.
C20_NonInteractive ==
    (~options.review /\ ~options.confirm)
        => /\ EventsOf("prompt") = {}
           /\ EventsOf("tool") = {}
           /\ exception = ""
           /\ upc # "staged"
                => IF \/ method = "apply" /\ target0 = StagedContent
                      \/ method = "remove" /\ target0 = Absent
                   THEN Returned /\ result = "True" /\ Quiet
                   ELSE events # <<>> /\ events[1].kind = "execute"

C20_Witness ==
    /\ options = ModificationOptions(TRUE)
    /\ method = "apply"
    /\ target0 = Absent
    /\ upc = "returned"
    /\ events # <<>>
    /\ target = StagedContent

\* The diff tool candidates in the order they are tried, and the places in
\* that order of those that resolve to a program.
Candidates == <<environ.diffprog, environ.DIFFPROG, "nvim", "vim">>

Resolvable ==
    {i \in DOMAIN Candidates :
        Candidates[i] # "" /\ Candidates[i] \in environ.installed}

\* The diff tool launches, failed ones included.
DiffLaunches == {i \in EventsOf("tool") : events[i].what = "diff"}

\* C21: when the operator asks for the comparison and no candidate diff
\* tool (the argument, DIFFPROG, then nvim, then vim) resolves, the review
\* raises and the error leaves apply / remove: no tool is launched, no
\* command is handed over or run and the target is as it was.  When some
\* candidate resolves, the first one in that order that does is launched,
\* once.
C21_NoToolAvailable ==
    /\ Cardinality(EventsOf("tool")) <= 1
    /\ \A i \in DiffLaunches :
         IF Resolvable = {}
         THEN /\ events[i].res = "not found"
              /\ i = Len(events)
              /\ upc \in {"raised", "exited"}
              /\ exception = "RuntimeError"
              /\ result = "none"
              /\ exec = NoExec
              /\ target = target0
         ELSE /\ \E r \in Resolvable :
                   /\ \A q \in Resolvable : r <= q
                   /\ events[i].res = Candidates[r]
              /\ exception # "RuntimeError"
    /\ \A i \in DOMAIN events :
         (events[i] = Event("prompt", "review", "y") /\ i = Len(events))
             => upc = "review_tool"

C21_Witness ==
    /\ DiffLaunches # {}
    /\ Resolvable = {}
    /\ environ.DIFFPROG # ""
    /\ upc = "exited"
    /\ exception = "RuntimeError"

(***************************************************************************)
(* Claims about the constructor options and the document frame.            *)
(***************************************************************************)
\* An option that cannot mark a comment or divide a key.
Malformed(o) == o.comment_char = <<>> \/ o.section_divider = <<>>

\* The constructor returned an object.
Constructed == pc \in {"ready", "done"}

\* The places <<section, line>> of the lines the sections hold.
Entries(cfg) ==
    {<<i, j>> \in (1..Len(cfg.sections)) \X (1..MaxInputLines + MaxOps + 1) :
        j <= Len(cfg.sections[i].lines)}

\* C22: with an empty comment marker or an empty divider the constructor
\* fails, so that no object exists to call get / set / comment on; with
\* well-formed options it never fails and every input line is one header,
\* one Field or one raw line.
C22_FailFast ==
    /\ Malformed(opts) => ~Constructed
    /\ (~Malformed(opts) /\ pc # "new")
         => /\ Constructed
            /\ op.raised = ""
            /\ Cardinality(Entries(Self)) + Len(sections) - 1 = Len(lines)

IsPrefix(a, b) == Len(a) <= Len(b) /\ SubSeq(b, 1, Len(a)) = a

\* Every section that existed before the call is at its place, under its
\* name, with the lines it had, in their order, at the start of its lines.
SectionsKept ==
    /\ Len(sections) >= Len(pre.sections)
    /\ \A i \in 1..Len(pre.sections) :
         /\ sections[i].name = pre.sections[i].name
         /\ IsPrefix(pre.sections[i].lines, sections[i].lines)

\* The field objects the call changed.
ChangedRefs == {r \in AllRefs(pre) : heap[r] # pre.heap[r]}

\* Field r differs from what it was in its comment marker and value only.
OnlyMarkerOrValue(r) ==
    heap[r] = [pre.heap[r] EXCEPT !.comment = heap[r].comment,
                                  !.value = heap[r].value]

\* The call changed at most one field, in place.
EditedInPlace ==
    /\ sections = pre.sections
    /\ fields = pre.fields
    /\ Len(heap) = Len(pre.heap)
    /\ Cardinality(ChangedRefs) <= 1
    /\ \A r \in ChangedRefs : OnlyMarkerOrValue(r)

\* The call added one field object and one line holding it, the last line
\* of an existing section or the only line of one new last section.
AppendedOneLine ==
    /\ Len(heap) = Len(pre.heap) + 1
    /\ ChangedRefs = {}
    /\ Cardinality(Entries(Self)) = Cardinality(Entries(pre)) + 1
    /\ Len(sections) <= Len(pre.sections) + 1
    /\ \E i \in 1..Len(sections) :
         /\ sections[i].lines # <<>>
         /\ sections[i].lines[Len(sections[i].lines)] = FieldLine(Len(heap))
         /\ i > Len(pre.sections) => Len(sections[i].lines) = 1

\* C23: a set or comment call changes at most one Field's comment marker
\* and value, or appends exactly one new Field (to a section, or in one new
\* last section); every other line stays as it was and where it was, the
\* sections keep their names and places, and sections of the same name
\* stay separate.
C23_Frame ==
    op.name \in {"set", "comment"}
        => /\ SectionsKept
           /\ EditedInPlace \/ AppendedOneLine

C23_Witness ==
    /\ op.name = "set"
    /\ AppendedOneLine
    /\ \E i, j \in 1..Len(pre.sections) :
         i < j /\ pre.sections[i].name = pre.sections[j].name
    /\ nops = 2
    /\ ChangedRefs = {}

(***************************************************************************)
(* Claims about the serialized text.                                       *)
(***************************************************************************)
\* The places in a list of lines where two blank lines follow each other.
BlankPairs(ls) ==
    {i \in 1..(Len(ls) - 1) : IsBlank(ls[i]) /\ IsBlank(ls[i + 1])}

\* The headers of the input that follow a line that is not blank.
HeadersAfterText ==
    {i \in 2..Len(lines) : IsHeader(lines[i]) /\ ~IsBlank(lines[i - 1])}

\* C24: in the serialized lines every section header but one that is the
\* first line follows a blank line; one separator is written for each
\* header that follows a non-blank line and none elsewhere, so the output
\* has no pair of blank lines the input did not have, and its first line
\* is not a separator.
C24_BlankLineRule ==
    pc = "done"
        => /\ \A i \in 2..Len(out) : IsHeader(out[i]) => IsBlank(out[i - 1])
           /\ Len(out) = Len(lines) + Cardinality(HeadersAfterText)
           /\ Cardinality(BlankPairs(out)) = Cardinality(BlankPairs(lines))
           /\ lines # <<>>
                => /\ out # <<>>
                   /\ IsBlank(out[1]) <=> IsBlank(lines[1])
                   /\ IsHeader(out[1]) <=> IsHeader(lines[1])

C24_Witness ==
    /\ pc = "done"
    /\ Len(lines) = 3
    /\ IsBlank(lines[1])
    /\ IsHeader(lines[2])
    /\ IsHeader(lines[3])
    /\ Len(out) = 4
    /\ IsBlank(out[3])

\* The number of whitespace characters s ends with.
TrailingSpace(s) ==
    LET ns == {n \in 0..Len(s) :
                  \A i \in (Len(s) - n + 1)..Len(s) : s[i] \in Whitespace}
    IN  CHOOSE n \in ns : \A m \in ns : m <= n

\* C25: the whitespace a key/value line ends with is held apart from the
\* value: get returns the value without it, and a set that writes the
\* field leaves the line ending with the whitespace it ended with.
C25_TrailingWhitespace ==
    /\ op.name = "get" => TrailingSpace(op.ret) = 0
    /\ (op.name = "set" /\ op.raised = "")
         => \A r \in ChangedRefs :
               SubSeq(field_str(heap[r]),
                      Len(field_str(heap[r]))
                          - TrailingSpace(field_str(pre.heap[r])) + 1,
                      Len(field_str(heap[r])))
                 = SubSeq(field_str(pre.heap[r]),
                          Len(field_str(pre.heap[r]))
                              - TrailingSpace(field_str(pre.heap[r])) + 1,
                          Len(field_str(pre.heap[r])))

\* s without the whitespace it starts and ends with (s is not all blank).
Trim(s) == SubSeq(s, LeadingSpace(s) + 1, Len(s) - TrailingSpace(s))

\* The name a header line gives: what stands between its brackets, trimmed.
HeaderName(line) == Trim(SubSeq(Trim(line), 2, Len(Trim(line)) - 1))

\* The header lines of the input, in order: header n starts section n + 1.
HeaderLines == SelectSeq(lines, IsHeader)

\* C26: a header written with whitespace in or around its brackets starts
\* a section named by the trimmed name: its fields are indexed under that
\* name, the divider and the key, and a set of a new key of that name
\* appends into the section and creates no section.
C26_HeaderNameTrimmed ==
    pc = "ready"
        => \A n \in 1..Len(HeaderLines) :
              LET name == HeaderName(HeaderLines[n])
                  sec  == sections[n + 1]
              IN  /\ sec.name = name
                  /\ \A j \in 1..Len(sec.lines) :
                       sec.lines[j].field
                         => \E m \in 1..Len(IndexGet(fields,
                                 QualifiedKey(name, heap[sec.lines[j].ref].key))) :
                               IndexGet(fields,
                                 QualifiedKey(name, heap[sec.lines[j].ref].key))[m]
                                   = sec.lines[j].ref
                  /\ Len(set(Self, name \o <<".", "q">>, <<"5">>).self.sections)
                       = Len(sections)

(***************************************************************************)
(* Claims about sequences of calls.                                        *)
(***************************************************************************)
\* The key's fields that were not commented before the call.
PreActive == get_set_fields(pre, op.key)

\* C27: right after a set(key, v) that returned, get(key) is v; right
\* after a comment(key) of a key that had exactly one uncommented field,
\* get(key) is the empty string.
C27_ReadYourWrites ==
    /\ (op.name = "set" /\ op.raised = "") => get(Self, op.key) = op.value
    /\ (op.name = "comment" /\ Len(PreActive) = 1) => get(Self, op.key) = <<>>

C27_Witness ==
    /\ op.name = "set"
    /\ op.raised = ""
    /\ nops = 2
    /\ Len(PreEntry) = 1
    /\ PreAllCommented
    /\ get(pre, op.key) = <<>>
    /\ get(Self, op.key) = op.value

\* The number of lines of a list that are key/value fields.
FieldLineCount(ls) == Cardinality({i \in 1..Len(ls) : IsFieldLine(ls[i])})

\* The document has the lines and fields it had after the first set.
SameSize ==
    /\ Len(str(Self)) = Len(out)
    /\ FieldLineCount(str(Self)) = FieldLineCount(out)

\* The fields the key had when the document was parsed.
ParsedEntry == IndexGet(Configuration(lines).fields, op.key)

\* C28 as stated: after the first set(key, v), any number of comment(key,
\* "") and set(key, v) in turn leaves the number of lines and of fields as
\* it was after the first set, whatever other fields the key has.
C28_NoGrowth_AsStated ==
    (op.name \in {"set", "comment"} /\ nops >= 2) => SameSize

\* C28, amended: that holds when the parsed document has at most one field
\* for the key, and then every call of the sequence writes to the one
\* field the key has.
C28_NoGrowth ==
    (op.name \in {"set", "comment"} /\ nops >= 2 /\ Len(ParsedEntry) <= 1)
        => /\ SameSize
           /\ Len(IndexGet(fields, op.key)) <= 1
           /\ \A r \in ChangedRefs : IndexGet(fields, op.key) = <<r>>

C28_Witness ==
    /\ op.name = "set"
    /\ nops = 5
    /\ Len(ParsedEntry) = 1
    /\ ~IsActive(Configuration(lines), ParsedEntry[1])
    /\ ChangedRefs # {}
    /\ SameSize

\* The same set call made on the document parsed from the text that the
\* object serializes to: the modification run again on the installed file.
Reapplied == set(Configuration(str(Self)), op.key, op.value)

\* C29: a set call made on the parse of the text that the same call
\* produced changes nothing: the text serialized the second time equals
\* the first, so the content staged by the second run equals the target
\* and apply skips.
C29_ReapplyNoOp ==
    (op.name = "set" /\ nops = 1)
        => /\ Reapplied.raised = op.raised
           /\ str(Reapplied.self) = str(Self)

(***************************************************************************)
(* tui.Menu.  A menu is named by its message; an option is a leaf value or *)
(* another menu.  MODIFICATION_MENU is modelled with two of its functions. *)
(* "outer", "inner" and "innermost" are a nested tree, which none of the   *)
(* menus of the application is.                                            *)
(***************************************************************************)
Leaf(value) == [menu |-> FALSE, value |-> value]
Submenu(message) == [menu |-> TRUE, value |-> message]

\* Menu.options of the menu with that message, in the order of its keys.
Menu_options(message) ==
    CASE message = "Select category" ->
             <<Leaf("modification"), Leaf("task")>>
      [] message = "Select modification" ->
             <<Leaf("pacman_hook_paccache"),
               Leaf("journald_limits_size_and_age")>>
      [] message = "Select task" -> <<Leaf("clear_user_cache_dir")>>
      [] message = "Select operation" -> <<Leaf("True"), Leaf("False")>>
      [] message = "outer" -> <<Leaf("a"), Submenu("inner")>>
      [] message = "inner" -> <<Submenu("innermost"), Leaf("b")>>
      [] message = "innermost" -> <<Leaf("c")>>

MenuNames ==
    {"Select category", "Select modification", "Select task",
     "Select operation", "outer", "inner", "innermost"}

\* Lines typed at "Choice (ctrl-d to go back):", "EOF" for ctrl-d.
MenuLines == {"1", "2", "0", "x", "", "EOF"}

\* str(i + 1) for the options a menu of the model can have.
Digits == <<"1", "2">>

\* int(answer)
int(answer) == CHOOSE i \in DOMAIN Digits : Digits[i] = answer

\* tui.prompt(message, answers, show_options=False) with answers "1" .. "n":
\* the answer one line gives, "invalid" when the loop asks again.
menu_answer(keys, line) ==
    IF line \in {Digits[i] : i \in DOMAIN keys} THEN line ELSE "invalid"

\* EOFError leaves the prompt of the innermost menu: the menu that called
\* it goes round its loop, and without one the caller of prompt gets it.
menu_raise(menus) ==
    IF Len(menus) > 1
    THEN [menus |-> SubSeq(menus, 1, Len(menus) - 1),
          value |-> "", raised |-> ""]
    ELSE [menus |-> <<>>, value |-> "", raised |-> "EOFError"]

\* Menu.prompt, one line of input further.  menus are the menus whose
\* prompt is running, the one shown last; the result has the menus still
\* running, or the value returned, or the exception raised.
Menu_prompt(menus, line) ==
    LET self == menus[Len(menus)]
        keys == Menu_options(self)
        answer == menu_answer(keys, line)
    IN  IF line = "EOF" THEN menu_raise(menus)
        ELSE IF answer = "invalid"
        THEN [menus |-> menus, value |-> "", raised |-> ""]
        ELSE IF answer = "0" THEN menu_raise(menus)
        ELSE IF keys[int(answer)].menu
        THEN [menus |-> Append(menus, keys[int(answer)].value),
              value |-> "", raised |-> ""]
        ELSE [menus |-> <<>>, value |-> keys[int(answer)].value,
              raised |-> ""]

(***************************************************************************)
(* application.main, run without a command on the command line: the loop   *)
(* that shows the category menu, lets the operator pick a modification and *)
(* an operation, or a task, and runs it.  main.pc is the input the loop is *)
(* waiting for, or the call it is in; main.menus the menus being shown.    *)
(***************************************************************************)
\* Some of the functions MODIFICATION_MENU and TASK_MENU offer.
Modifications == {"pacman_hook_paccache", "journald_limits_size_and_age"}
Tasks == {"clear_user_cache_dir"}

MainInit ==
    /\ NoUpdate
    /\ NoConfiguration
    /\ main = [pc |-> "category", menus |-> <<"Select category">>,
               modifications |-> <<>>, tasks |-> <<>>,
               apply |-> "None", iteration |-> 0]
    /\ hist = [selected |-> {}, ran |-> "none", stale |-> FALSE,
               menus |-> <<>>, line |-> "", value |-> ""]

\* The inner `while True` of the modification branch, up to its next menu
\* or to the `for modification in modifications` loop.
modification_loop(m) ==
    IF m.modifications = <<>>
    THEN [m EXCEPT !.pc = "modification_menu",
                   !.menus = <<"Select modification">>]
    ELSE IF m.apply = "None"
    THEN [m EXCEPT !.pc = "operation_menu", !.menus = <<"Select operation">>]
    ELSE [m EXCEPT !.pc = "modification", !.menus = <<>>]

\* The task branch, up to its menu or to the `for task in tasks` loop.
task_branch(m) ==
    IF m.tasks = <<>>
    THEN [m EXCEPT !.pc = "task_menu", !.menus = <<"Select task">>]
    ELSE [m EXCEPT !.pc = "task", !.menus = <<>>]

\* The top of `while prompt_again`, where category_menu.prompt() is called.
while_prompt_again(m) ==
    [m EXCEPT !.pc = "category", !.menus = <<"Select category">>]

\* `except EOFError: continue`: back to the top of the loop.
except_EOFError(m) == while_prompt_again(m)

\* What the line given to the menus being shown is remembered as.
Asked(line, r) ==
    [hist EXCEPT !.menus = main.menus, !.line = line,
                 !.value = IF r.menus = <<>> /\ r.raised = ""
                           THEN r.value ELSE @]

\* category_menu.prompt() returns the command, or raises and main returns.
CategoryPrompt(line) ==
    /\ main.pc = "category"
    /\ main.iteration < MaxIterations
    /\ LET r == Menu_prompt(main.menus, line)
           m == [main EXCEPT !.iteration = @ + 1]
       IN  /\ main' = IF r.raised = "EOFError"
                      THEN [m EXCEPT !.pc = "returned", !.menus = <<>>]
                      ELSE IF r.menus # <<>>
                      THEN [main EXCEPT !.menus = r.menus]
                      ELSE IF r.value = "modification"
                      THEN modification_loop(m)
                      ELSE task_branch(m)
           /\ hist' = [Asked(line, r) EXCEPT !.selected = {}]
    /\ UNCHANGED cfgVars
    /\ UNCHANGED updVars

\* MODIFICATION_MENU.prompt()
ModificationPrompt(line) ==
    /\ main.pc = "modification_menu"
    /\ LET r == Menu_prompt(main.menus, line)
       IN  IF r.raised = "EOFError"
           THEN /\ main' = except_EOFError(main)
                /\ hist' = Asked(line, r)
           ELSE IF r.menus # <<>>
           THEN /\ main' = [main EXCEPT !.menus = r.menus]
                /\ hist' = Asked(line, r)
           ELSE /\ main' = modification_loop(
                              [main EXCEPT
                                 !.modifications = Append(@, r.value),
                                 !.apply = "None"])
                /\ hist' = [Asked(line, r) EXCEPT
                              !.selected = @ \cup {r.value}]
    /\ UNCHANGED cfgVars
    /\ UNCHANGED updVars

\* Menu("Select operation", {"apply": True, "remove": False}).prompt();
\* on EOFError the inner loop goes round.
OperationPrompt(line) ==
    /\ main.pc = "operation_menu"
    /\ LET r == Menu_prompt(main.menus, line)
       IN  IF r.raised = "EOFError"
           THEN /\ main' = modification_loop(main)
                /\ hist' = Asked(line, r)
           ELSE IF r.menus # <<>>
           THEN /\ main' = [main EXCEPT !.menus = r.menus]
                /\ hist' = Asked(line, r)
           ELSE /\ main' = modification_loop([main EXCEPT !.apply = r.value])
                /\ hist' = [Asked(line, r) EXCEPT
                              !.selected = @ \cup {"operation"}]
    /\ UNCHANGED cfgVars
    /\ UNCHANGED updVars

\* for modification in modifications: modification(options), then
\* modifications.clear().  A modification returns, or one of its prompts
\* raises EOFError, or it is interrupted and main returns, or it raises
\* something main does not catch.
RunModifications(outcome) ==
    /\ main.pc = "modification"
    /\ main' = IF outcome = "returned"
               THEN while_prompt_again([main EXCEPT !.modifications = <<>>])
               ELSE IF outcome = "EOFError" THEN except_EOFError(main)
               ELSE IF outcome = "KeyboardInterrupt"
               THEN [main EXCEPT !.pc = "returned"]
               ELSE [main EXCEPT !.pc = "raised"]
    /\ hist' = [hist EXCEPT
                  !.ran = main.modifications[1],
                  !.stale = ~({main.modifications[1], "operation"}
                                 \subseteq hist.selected)]
    /\ UNCHANGED cfgVars
    /\ UNCHANGED updVars

\* TASK_MENU.prompt()
TaskPrompt(line) ==
    /\ main.pc = "task_menu"
    /\ LET r == Menu_prompt(main.menus, line)
       IN  IF r.raised = "EOFError"
           THEN /\ main' = except_EOFError(main)
                /\ hist' = Asked(line, r)
           ELSE IF r.menus # <<>>
           THEN /\ main' = [main EXCEPT !.menus = r.menus]
                /\ hist' = Asked(line, r)
           ELSE /\ main' = task_branch(
                              [main EXCEPT !.tasks = Append(@, r.value)])
                /\ hist' = [Asked(line, r) EXCEPT
                              !.selected = @ \cup {r.value}]
    /\ UNCHANGED cfgVars
    /\ UNCHANGED updVars

\* for task in tasks: task(), then tasks.clear().
RunTasks(outcome) ==
    /\ main.pc = "task"
    /\ main' = IF outcome = "returned"
               THEN while_prompt_again([main EXCEPT !.tasks = <<>>])
               ELSE [main EXCEPT !.pc = "raised"]
    /\ hist' = [hist EXCEPT !.ran = main.tasks[1],
                            !.stale = main.tasks[1] \notin hist.selected]
    /\ UNCHANGED cfgVars
    /\ UNCHANGED updVars

MainNext ==
    \/ \E line \in MenuLines : CategoryPrompt(line)
    \/ \E line \in MenuLines : ModificationPrompt(line)
    \/ \E line \in MenuLines : OperationPrompt(line)
    \/ \E outcome \in {"returned", "EOFError", "KeyboardInterrupt",
                       "RuntimeError"} : RunModifications(outcome)
    \/ \E line \in MenuLines : TaskPrompt(line)
    \/ \E outcome \in {"returned", "OSError"} : RunTasks(outcome)

MainSpec == MainInit /\ [][MainNext]_vars

(***************************************************************************)
(* Menu.prompt called on its own, on any of the menus.                     *)
(***************************************************************************)
MenuInit ==
    /\ NoUpdate
    /\ NoConfiguration
    /\ \E message \in MenuNames :
          main = [pc |-> "menu", menus |-> <<message>>,
                  modifications |-> <<>>, tasks |-> <<>>,
                  apply |-> "None", iteration |-> 0]
    /\ hist = [selected |-> {}, ran |-> "none", stale |-> FALSE,
               menus |-> <<>>, line |-> "", value |-> ""]

\* One line given to the menu shown.
MenuAnswer(line) ==
    /\ main.pc = "menu"
    /\ LET r == Menu_prompt(main.menus, line)
       IN  /\ main' = [main EXCEPT
                         !.menus = r.menus,
                         !.pc = IF r.raised = "EOFError" THEN "raised"
                                ELSE IF r.menus # <<>> THEN "menu"
                                ELSE "returned"]
           /\ hist' = Asked(line, r)
    /\ UNCHANGED cfgVars
    /\ UNCHANGED updVars

MenuNext == \E line \in MenuLines : MenuAnswer(line)

MenuSpec == MenuInit /\ [][MenuNext]_vars

\* C30: whenever the category menu is shown no modification and no task is
\* pending, and whatever runs was selected, with its operation, in the
\* iteration it runs in, also after an iteration that ended with EOFError
\* inside a modification.
C30_NoStaleSelection ==
    /\ main.pc = "category"
         => main.modifications = <<>> /\ main.tasks = <<>>
    /\ ~hist.stale

\* The last line given to a menu was ctrl-d, at the menu m shown on its own.
EndOfInputAt(m) == hist.line = "EOF" /\ hist.menus = <<m>>

\* Ctrl-d in a menu opened from another shows the menu it was opened from.
SubmenuToParent ==
    hist.line = "EOF" /\ Len(hist.menus) > 1
        => /\ main.menus = SubSeq(hist.menus, 1, Len(hist.menus) - 1)
           /\ main.pc \notin {"returned", "raised"}

\* Ctrl-d at the modification or the task menu shows the category menu.
SelectionToCategory ==
    EndOfInputAt("Select modification") \/ EndOfInputAt("Select task")
        => main.menus = <<"Select category">>

\* Ctrl-d at the operation menu shows the modification menu.
OperationToSelection ==
    EndOfInputAt("Select operation")
        => main.menus = <<"Select modification">>

\* Ctrl-d ends main at the category menu, and nowhere else.
EndsAtCategoryOnly ==
    /\ EndOfInputAt("Select category") => main.pc = "returned"
    /\ hist.line = "EOF" /\ main.pc = "returned"
          => hist.menus = <<"Select category">>

\* Ctrl-d at a menu called on its own is raised to the caller.
RootRaises ==
    hist.line = "EOF" /\ Len(hist.menus) = 1 => main.pc = "raised"

\* The values that are not menus.
Leaves ==
    {Menu_options(m)[i].value : <<m, i>> \in
        {mi \in MenuNames \X DOMAIN Digits :
            /\ mi[2] \in DOMAIN Menu_options(mi[1])
            /\ ~Menu_options(mi[1])[mi[2]].menu}}

\* What Menu.prompt returned, if it has, is a leaf.
ReturnsLeaf == hist.value = "" \/ hist.value \in Leaves

\* C31: ctrl-d at a menu goes back one level: from a submenu to the menu it
\* was opened from, from the modification or task menu to the category menu,
\* from the operation menu to the modification menu; main ends only at the
\* category menu; and Menu.prompt otherwise returns a leaf, never a menu.
C31_CtrlDGoesBack ==
    /\ SubmenuToParent
    /\ SelectionToCategory
    /\ OperationToSelection
    /\ EndsAtCategoryOnly
    /\ ReturnsLeaf

====
